---------------------------- MODULE Spec2Model ----------------------------
(***************************************************************************)
(* Model of the image retrieval service of src/ai:                         *)
(*   pipeline.py           ImagePipeline (detect_and_crop, _center_crop,   *)
(*                         process_image)                                  *)
(*   embedding_service.py  EmbeddingService (normalize_vector,             *)
(*                         generate_embedding, get_embedding_dim)          *)
(*   app.py                module start-up, /index and /search             *)
(*   images_embed.py       module start-up, index_folder                   *)
(*                                                                         *)
(* Five specifications share the module:                                   *)
(*   SpecCrop     detect_and_crop, called by process_image, applied to an  *)
(*                image and a detector output or failure                   *)
(*   SpecSingleton  threads calling get_embedding_service and get_pipeline *)
(*   SpecNorm     normalize_vector / generate_embedding applied to a raw   *)
(*                feature vector                                           *)
(*   SpecStartup  the two programs (the server app.py and the script       *)
(*                images_embed.py) starting up, any number of times,       *)
(*                against one vector database                              *)
(*   Spec         the two programs, started, serving /index and /search    *)
(*                and running index_folder against that database           *)
(***************************************************************************)
EXTENDS Integers, Sequences, FiniteSets, TLC

VARIABLES
    \* ---- SpecCrop: one call of ImagePipeline.process_image with
    \* apply_detection, and the call of detect_and_crop it makes
    cpc,        \* "start" before detect_and_crop; "done" when it returned,
                \* "raised" when it raised; then "returned" or "failed"
                \* when process_image returned or raised
    predict,    \* yolo_model.predict: "none" (not called), "returned", "raised"
    img,        \* [w, h]: pil_img.size, in pixels
    boxes,      \* results[0].boxes: the detector's output, in its order
    best_box,       \* best_box after the selection loop: its index in boxes, 0 for None
    crop,       \* the rectangle passed to pil_img.crop, or NoCrop
    \* ---- Spec: app.py and images_embed.py against one vector database
    pc,         \* per program: "load", "dim", "listed", "ready", "crashed"
    embed_dim,  \* per program: EMBED_DIM (0 before get_embedding_dim)
    listed,     \* per program: PINECONE_INDEX in pc.list_indexes().names()
    issued,     \* per program: the pc.create_index call of this start-up
    collection, \* the index named PINECONE_INDEX in the vector database
    creations,  \* how many times the database created that index
    next_id,    \* the next fresh item id (ids are uuid4-prefixed file names)
    last,       \* the last request served: its inputs and its response
    restarts,   \* how many times a program was started again
    museum,     \* the names of the files in images/museum (MUSEUM_DIR)
    \* ---- SpecNorm: one call of EmbeddingService.generate_embedding
    npc,        \* "start" before the call, "done" after it
    features,   \* the raw feature vector extract_features returns
    normalized, \* the vector normalize_vector returns
    \* ---- SpecSingleton: threads calling get_embedding_service and
    \* get_pipeline
    thread,     \* per thread: its position, the getter it called, whether
                \* it is inside ImagePipeline.__init__, the objects it has
                \* constructed and the object its call returned
    global,     \* _embedding_service and _pipeline: 0 for None, else the
                \* object; with the number of assignments made to each
    constructed \* per class: how many objects were constructed

cropVars == <<cpc, predict, img, boxes, best_box, crop>>

svcVars == <<pc, embed_dim, listed, issued, collection, creations, next_id,
             last, restarts, museum>>

normVars == <<npc, features, normalized>>

thrVars == <<thread, global, constructed>>

vars == <<cpc, predict, img, boxes, best_box, crop, pc, embed_dim, listed,
          issued, collection, creations, next_id, last, restarts, npc,
          features, normalized, thread, global, constructed, museum>>

-----------------------------------------------------------------------------
(***************************************************************************)
(* Bounds of the model.                                                    *)
(***************************************************************************)
\* Image sides are 1..MaxSmall and PadDiv..PadDiv+MaxExtra pixels: the small
\* ones exercise the center crop, the large ones a non-zero padding.
MaxSmall == 3
MaxExtra == 3
\* At most MaxBoxes boxes in one detector output (the code asks for max_det=10).
MaxBoxes == 2
\* Box coordinates are reals; they are modelled in units of 1/SubPixel pixel.
SubPixel == 2

\* pad = int(width * 0.05): for the integer widths of an image this is
\* width div 20.
PadDiv == 20

NoCrop == [x1 |-> -1, y1 |-> -1, x2 |-> -1, y2 |-> -1]

Min(a, b) == IF a < b THEN a ELSE b
Max(a, b) == IF a > b THEN a ELSE b

-----------------------------------------------------------------------------
(***************************************************************************)
(* pipeline.py: ImagePipeline._center_crop and detect_and_crop             *)
(***************************************************************************)

\* _center_crop: the rectangle (left, top, left + side, top + side).
CenterCropShifted(w, h) ==
    LET side == Min(w, h)
        left == w - side
        top  == h - side
    IN  [x1 |-> left, y1 |-> top, x2 |-> left + side, y2 |-> top + side]

CenterCrop(w, h) ==
    LET side == Min(w, h)
        left == (w - side) \div 2
        top  == (h - side) \div 2
    IN  [x1 |-> left, y1 |-> top, x2 |-> left + side, y2 |-> top + side]

\* area = (x2 - x1) * (y2 - y1), on the detector's real coordinates
\* (here in units of 1/SubPixel^2 square pixel).
Area(b) == (b.x2 - b.x1) * (b.y2 - b.y1)

\* The comparison of the selection loop: `if area > best_area`.
BetterLast(area, best_area) == area >= best_area

Better(area, best_area) == area > best_area

\* The loop `for box in boxes`, from index i on, with the running
\* best_box (index into boxes, 0 for None) and best_area.
RECURSIVE BestFrom(_, _, _, _)
BestFrom(bs, i, cur, best_area) ==
    IF i > Len(bs) THEN cur
    ELSE IF Better(Area(bs[i]), best_area)
         THEN BestFrom(bs, i + 1, i, Area(bs[i]))
         ELSE BestFrom(bs, i + 1, cur, best_area)

\* best_box after the loop: best_box = None, best_area = 0 before it.
BestIndex(bs) == BestFrom(bs, 1, 0, 0)

\* int(x) of a non-negative or negative real: truncation toward zero.
IntTrunc(x) == IF x >= 0 THEN x \div SubPixel ELSE -((-x) \div SubPixel)

\* pad_x = int((x2 - x1) * 0.05) on the truncated coordinates.
Pad(len) == IF len >= 0 THEN len \div PadDiv ELSE -((-len) \div PadDiv)

\* Lines 72-80: truncate, pad by 5%, clamp to the image.
PadAndClampNoClamp(w, h, b) ==
    LET x1 == IntTrunc(b.x1)
        y1 == IntTrunc(b.y1)
        x2 == IntTrunc(b.x2)
        y2 == IntTrunc(b.y2)
        pad_x == Pad(x2 - x1)
        pad_y == Pad(y2 - y1)
    IN  [x1 |-> x1 - pad_x, y1 |-> y1 - pad_y,
         x2 |-> x2 + pad_x, y2 |-> y2 + pad_y]

PadAndClamp(w, h, b) ==
    LET x1 == IntTrunc(b.x1)
        y1 == IntTrunc(b.y1)
        x2 == IntTrunc(b.x2)
        y2 == IntTrunc(b.y2)
        pad_x == Pad(x2 - x1)
        pad_y == Pad(y2 - y1)
    IN  [x1 |-> Max(0, x1 - pad_x), y1 |-> Max(0, y1 - pad_y),
         x2 |-> Min(w, x2 + pad_x), y2 |-> Min(h, y2 + pad_y)]

\* detect_and_crop after the detector has returned bs (lines 54-84).
DetectAndCrop(w, h, bs) ==
    IF Len(bs) = 0 THEN CenterCrop(w, h)
    ELSE LET sel == BestIndex(bs)
         IN  IF sel # 0 THEN PadAndClamp(w, h, bs[sel])
             ELSE CenterCrop(w, h)

-----------------------------------------------------------------------------
(***************************************************************************)
(* app.py and images_embed.py: configuration                               *)
(***************************************************************************)
\* The two programs of the repository that open the index PINECONE_INDEX
\* (both default to "museum-images").
Procs == {"app", "script"}

\* At most MaxItems items are written to the index in one behaviour.
MaxItems == 2
\* Images are 1..MaxImages; top_k is 1..MaxK.
MaxImages == 2
MaxK == 2
\* At most MaxRestarts restarts of a program.
MaxRestarts == 1

\* The embedding dimension of vit_base_patch16_224.dino, which
\* get_embedding_dim discovers by a dummy forward pass.
ModelDim == 768
\* The dimension of an index created for another embedding model.
OtherDim == ModelDim \div 2

Images == 1 .. MaxImages

\* The flags of the three process_image calls.
IndexFlags  == [det |-> FALSE, norm |-> TRUE]
SearchFlags == [det |-> FALSE, norm |-> TRUE]
FolderFlags == [det |-> TRUE, norm |-> TRUE]

NoCollection == [exists |-> FALSE, dim |-> 0, metric |-> "", items |-> {}]

\* What a request can run into: nothing, a content type other than JPG/PNG,
\* a failing write of the upload, an unreadable image, and a failure of the
\* detector, the color normalizer, the embedding model or the database call.
Fails == {"none", "content_type", "save", "open",
          "detector", "color", "embedding", "index"}

Components == {"detector", "color", "embedding", "index"}

\* The text of an exception, str(e): chosen by the failing library.
Msgs == {"m1", "m2"}

NoRequest == [op |-> "none"]

NoCall == [called |-> FALSE, dimension |-> 0, metric |-> "",
           conflict |-> FALSE]

SvcIdle ==
    /\ pc = [p \in Procs |-> "off"]
    /\ embed_dim = [p \in Procs |-> 0]
    /\ listed = [p \in Procs |-> FALSE]
    /\ issued = [p \in Procs |-> NoCall]
    /\ collection = NoCollection
    /\ creations = 0
    /\ next_id = 1
    /\ last = NoRequest
    /\ restarts = 0
    /\ museum = {}

-----------------------------------------------------------------------------
(***************************************************************************)
(* embedding_service.py, lines 136-144, and pipeline.py, lines 207-215:    *)
(* the module globals _embedding_service and _pipeline and the threads     *)
(* that call their getters.  An object is named by the order in which its  *)
(* class constructed it: 1, 2, ...; 0 stands for None.                     *)
(***************************************************************************)
MaxThreads == 2

Threads == 1 .. MaxThreads

Getters == {"embedding_service", "pipeline"}

NoThread == [pc |-> "idle", getter |-> "none", in_init |-> FALSE,
             es |-> 0, pl |-> 0, ret |-> 0]

NoGlobal == [obj |-> 0, sets |-> 0]

ThrIdle ==
    /\ thread = [t \in Threads |-> NoThread]
    /\ global = [g \in Getters |-> NoGlobal]
    /\ constructed = [g \in Getters |-> 0]

-----------------------------------------------------------------------------
(***************************************************************************)
(* embedding_service.py: normalize_vector and generate_embedding           *)
(*                                                                         *)
(* extract_features returns a float32 array (`.astype(np.float32)`), and   *)
(* np.linalg.norm keeps that type: it computes sqrt(vec.dot(vec)) as a     *)
(* float32.  A component is modelled as an integer m in -MaxAbs .. MaxAbs  *)
(* at one of two scales:                                                   *)
(*   "one"   the value m;                                                  *)
(*   "tiny"  the value m * 1e-30, a normal float32 (the smallest positive  *)
(*           float32 is about 1.4e-45) whose square, m*m * 1e-60, is below *)
(*           half the smallest positive float32 and is rounded to 0.       *)
(* Small integers and their sums of squares are exact in float32.  The     *)
(* vector `vec / norm` is kept as the pair of vec and norm^2.              *)
(***************************************************************************)
VecLen == 3
MaxAbs == 2

Scales == {"one", "tiny"}

Float32Values ==
    {c \in [m : (-MaxAbs) .. MaxAbs, scale : Scales] :
        c.m = 0 => c.scale = "one"}

FeatureVectors == [1 .. VecLen -> Float32Values]

\* x * x in float32.
Float32Square(x) == IF x.scale = "tiny" THEN 0 ELSE x.m * x.m

RECURSIVE SumSquares(_, _)
SumSquares(v, n) ==
    IF n = 0 THEN 0 ELSE Float32Square(v[n]) + SumSquares(v, n - 1)

\* np.linalg.norm(vec), squared: vec.dot(vec).
NormSquared(v) == SumSquares(v, Len(v))

\* `if norm > 0`
NormPositive(norm2) == norm2 > 0

\* normalize_vector: vec / norm when norm > 0, else vec.  The result
\* [num, den2] is the vector num divided by the square root of den2; a
\* vector that was not divided has den2 = 1.
NormalizeVector(v) ==
    LET norm2 == NormSquared(v)
    IN  IF NormPositive(norm2)
        THEN [num |-> v, den2 |-> norm2, divided |-> TRUE]
        ELSE [num |-> v, den2 |-> 1, divided |-> FALSE]

NoVector == [num |-> << >>, den2 |-> 1, divided |-> FALSE]

NormIdle ==
    /\ npc = "off"
    /\ features = << >>
    /\ normalized = NoVector

\* The feature extractor (timm model, external) returns some vector.
InitNorm ==
    /\ npc = "start"
    /\ features \in FeatureVectors
    /\ normalized = NoVector
    /\ cpc = "off"
    /\ predict = "none"
    /\ img = [w |-> 1, h |-> 1]
    /\ boxes = << >>
    /\ best_box = 0
    /\ crop = NoCrop
    /\ SvcIdle
    /\ ThrIdle

\* generate_embedding, lines 121-124: normalize_vector(features).tolist()
generate_embedding ==
    /\ npc = "start"
    /\ normalized' = NormalizeVector(features)
    /\ npc' = "done"
    /\ UNCHANGED features
    /\ UNCHANGED <<cropVars, svcVars, thrVars>>

NextNorm == generate_embedding

SpecNorm == InitNorm /\ [][NextNorm]_vars

-----------------------------------------------------------------------------
(***************************************************************************)
(* pipeline.py: process_image; embedding_service.py: generate_embedding,   *)
(* as seen by the request handlers.  An embedding is named by the image it *)
(* was computed from and the flags that image was preprocessed with.       *)
(***************************************************************************)

\* process_image raises when a step it runs raises: detect_and_crop runs
\* only under apply_detection, normalize_color only under apply_color_norm.
ProcessImageRaises(flags, fail) ==
    \/ (flags.det /\ fail = "detector")
    \/ (flags.norm /\ fail = "color")

GenerateEmbeddingRaises(fail) == fail = "embedding"

Embedding(image, flags) == [image |-> image, det |-> flags.det,
                            norm |-> flags.norm]

\* index.upsert and index.query raise when the database call fails or the
\* vector's dimension is not the index's.
DatabaseRaises(fail, coll) == fail = "index" \/ coll.dim # ModelDim

\* The try block of index_image and of index_folder (process_image,
\* generate_embedding, upsert, in this order): which call raised, whether
\* upsert was called and whether the item was written.
TryIndexUpsertFirst(flags, fail, coll) ==
    IF DatabaseRaises(fail, coll)
    THEN [raised |-> "index", upsert |-> TRUE, written |-> FALSE]
    ELSE IF ProcessImageRaises(flags, fail)
    THEN [raised |-> IF fail = "detector" THEN "detector" ELSE "color",
          upsert |-> TRUE, written |-> TRUE]
    ELSE IF GenerateEmbeddingRaises(fail)
    THEN [raised |-> "embedding", upsert |-> TRUE, written |-> TRUE]
    ELSE [raised |-> "none", upsert |-> TRUE, written |-> TRUE]

TryIndex(flags, fail, coll) ==
    IF ProcessImageRaises(flags, fail)
    THEN [raised |-> IF fail = "detector" THEN "detector" ELSE "color",
          upsert |-> FALSE, written |-> FALSE]
    ELSE IF GenerateEmbeddingRaises(fail)
    THEN [raised |-> "embedding", upsert |-> FALSE, written |-> FALSE]
    ELSE IF DatabaseRaises(fail, coll)
    THEN [raised |-> "index", upsert |-> TRUE, written |-> FALSE]
    ELSE [raised |-> "none", upsert |-> TRUE, written |-> TRUE]

\* The item of one upsert: id, values, metadata.  image_url names the file
\* /images/museum/<id>.
Item(id, image, flags) ==
    [id |-> id, values |-> Embedding(image, flags),
     metadata |-> [image_url |-> id]]

Upserted(coll, item) == [coll EXCEPT !.items = @ \cup {item}]

-----------------------------------------------------------------------------
(***************************************************************************)
(* The vector database (Pinecone, external): query                         *)
(***************************************************************************)
Abs(n) == IF n < 0 THEN -n ELSE n

\* The similarity of a query vector and a stored one, in percent: highest
\* for the same image under the same preprocessing.
Score(q, v) ==
    100 - 30 * Abs(q.image - v.image)
        - (IF q.det # v.det THEN 10 ELSE 0)
        - (IF q.norm # v.norm THEN 5 ELSE 0)

\* The item the database ranks first among its: the highest score, the
\* lowest id among equal scores.
Top(q, its) ==
    CHOOSE a \in its : \A b \in its :
        \/ Score(q, a.values) > Score(q, b.values)
        \/ (Score(q, a.values) = Score(q, b.values) /\ a.id <= b.id)

\* query(vector, top_k, include_metadata=True): up to k matches by
\* descending score.
RECURSIVE Query(_, _, _)
Query(q, its, k) ==
    IF k = 0 \/ its = {} THEN << >>
    ELSE LET a == Top(q, its)
         IN  <<[id |-> a.id, score |-> Score(q, a.values),
                metadata |-> a.metadata]>>
             \o Query(q, its \ {a}, k - 1)

\* app.py, lines 135-143: the loop over resp.matches.
MapMatchesReversed(matches) ==
    [i \in 1 .. Len(matches) |->
        LET m == matches[Len(matches) + 1 - i]
        IN  [id |-> m.id, score |-> m.score, metadata |-> m.metadata,
             image_url |-> m.metadata.image_url]]

MapMatches(matches) ==
    [i \in 1 .. Len(matches) |->
        LET m == matches[i]
        IN  [id |-> m.id, score |-> m.score, metadata |-> m.metadata,
             image_url |-> m.metadata.image_url]]

-----------------------------------------------------------------------------
(***************************************************************************)
(* The detector (ultralytics YOLO.predict, external): its possible outputs *)
(* on an image of w x h pixels.                                            *)
(***************************************************************************)
Sides == (1 .. MaxSmall) \cup (PadDiv .. (PadDiv + MaxExtra))

\* Intervals [a, b] of one axis of n pixels, in sub-pixel units: the whole
\* axis, the axis less one pixel at each end, the first sub-pixel, and the
\* axis less one sub-pixel at each end.
AxisIntervals(n) ==
    { iv \in { <<0, SubPixel * n>>,
               <<SubPixel, SubPixel * n - SubPixel>>,
               <<0, 1>>,
               <<1, SubPixel * n - 1>> } : iv[1] < iv[2] }

\* The boxes the detector may report: inside the image, x1 < x2, y1 < y2.
BoxesOf(w, h) ==
    { [x1 |-> ix[1], y1 |-> iy[1], x2 |-> ix[2], y2 |-> iy[2]] :
        ix \in AxisIntervals(w), iy \in AxisIntervals(h) }

\* The confidence of the i-th reported box: the detector reports its boxes
\* by descending confidence, all above conf_threshold = 0.25 (in percent).
ConfAt(i) == 95 - 10 * i

WithConf(bs) ==
    [i \in 1 .. Len(bs) |->
        [x1 |-> bs[i].x1, y1 |-> bs[i].y1, x2 |-> bs[i].x2, y2 |-> bs[i].y2,
         conf |-> ConfAt(i)]]

DetectorOutputs(w, h) ==
    { WithConf(bs) :
        bs \in UNION { [1 .. n -> BoxesOf(w, h)] : n \in 0 .. MaxBoxes } }

-----------------------------------------------------------------------------
(***************************************************************************)
(* SpecCrop                                                                *)
(***************************************************************************)
InitCrop ==
    /\ cpc = "start"
    /\ predict = "none"
    /\ img \in [w : Sides, h : Sides]
    /\ boxes = << >>
    /\ best_box = 0
    /\ crop = NoCrop
    /\ SvcIdle
    /\ NormIdle
    /\ ThrIdle

\* A detect_and_crop that answers a failure of the detector with the
\* center crop.
DetectResultMasked(predict_raised, w, h, bs) ==
    [raised |-> FALSE,
     crop |-> IF predict_raised THEN CenterCrop(w, h)
              ELSE DetectAndCrop(w, h, bs)]

\* What a call of detect_and_crop ends with when yolo_model.predict raised
\* or returned bs: the exception, which no statement of the method catches,
\* or the cropped image.
DetectResult(predict_raised, w, h, bs) ==
    IF predict_raised
    THEN [raised |-> TRUE, crop |-> NoCrop]
    ELSE [raised |-> FALSE, crop |-> DetectAndCrop(w, h, bs)]

\* One call of detect_and_crop: the detector answers or fails, the crop is
\* computed.
detect_and_crop ==
    /\ cpc = "start"
    /\ \E bs \in DetectorOutputs(img.w, img.h) : \E predict_raised \in BOOLEAN :
          LET r == DetectResult(predict_raised, img.w, img.h, bs)
          IN  /\ predict_raised => bs = << >>
              /\ predict' = IF predict_raised THEN "raised" ELSE "returned"
              /\ boxes' = bs
              /\ best_box' = IF Len(bs) = 0 THEN 0 ELSE BestIndex(bs)
              /\ crop' = r.crop
              /\ cpc' = IF r.raised THEN "raised" ELSE "done"
    /\ UNCHANGED img
    /\ UNCHANGED <<svcVars, normVars, thrVars>>

\* process_image, lines 169-179, after `self.detect_and_crop(pil_img)`: an
\* exception leaves process_image, which has no handler; a cropped image
\* goes through normalize_color, which keeps its size, and is returned.
process_image ==
    /\ cpc \in {"done", "raised"}
    /\ cpc' = IF cpc = "raised" THEN "failed" ELSE "returned"
    /\ UNCHANGED <<predict, img, boxes, best_box, crop>>
    /\ UNCHANGED <<svcVars, normVars, thrVars>>

NextCrop == detect_and_crop \/ process_image

SpecCrop == InitCrop /\ [][NextCrop]_vars

-----------------------------------------------------------------------------
(***************************************************************************)
(* SpecStartup: start-up of app.py (lines 36-57) and of images_embed.py    *)
(* (lines 19-32)                                                           *)
(***************************************************************************)
CropIdle ==
    /\ cpc = "off"
    /\ predict = "none"
    /\ img = [w |-> 1, h |-> 1]
    /\ boxes = << >>
    /\ best_box = 0
    /\ crop = NoCrop

\* Both programs are launched; the index may exist already, created for
\* this embedding model or for another one.
InitStartup ==
    /\ CropIdle
    /\ NormIdle
    /\ ThrIdle
    /\ pc = [p \in Procs |-> "load"]
    /\ embed_dim = [p \in Procs |-> 0]
    /\ listed = [p \in Procs |-> FALSE]
    /\ issued = [p \in Procs |-> NoCall]
    /\ collection \in
         { NoCollection,
           [exists |-> TRUE, dim |-> ModelDim, metric |-> "cosine",
            items |-> {}],
           [exists |-> TRUE, dim |-> OtherDim, metric |-> "cosine",
            items |-> {}] }
    /\ creations = 0
    /\ next_id = 1
    /\ last = NoRequest
    /\ restarts = 0
    /\ museum = {}

\* EMBED_DIM = embed_service.get_embedding_dim()
get_embedding_dim(p) ==
    /\ pc[p] = "load"
    /\ embed_dim' = [embed_dim EXCEPT ![p] = ModelDim]
    /\ pc' = [pc EXCEPT ![p] = "dim"]
    /\ UNCHANGED <<listed, issued, collection, creations, next_id, last,
                   restarts>>
    /\ UNCHANGED museum
    /\ UNCHANGED <<cropVars, normVars, thrVars>>

\* existing_indexes = pc.list_indexes().names()
list_indexes(p) ==
    /\ pc[p] = "dim"
    /\ listed' = [listed EXCEPT ![p] = collection.exists]
    /\ pc' = [pc EXCEPT ![p] = "listed"]
    /\ UNCHANGED <<embed_dim, issued, collection, creations, next_id, last,
                   restarts>>
    /\ UNCHANGED museum
    /\ UNCHANGED <<cropVars, normVars, thrVars>>

\* `if PINECONE_INDEX not in existing_indexes`
ShouldCreateAlways(is_listed) == TRUE

ShouldCreate(is_listed) == ~is_listed

\* pc.create_index(name, dimension=EMBED_DIM, metric="cosine", spec) and
\* index = pc.Index(PINECONE_INDEX).  The database refuses to create an
\* index whose name is taken, and the program ends with that exception.
ensure_index(p) ==
    /\ pc[p] = "listed"
    /\ IF ShouldCreate(listed[p])
       THEN /\ issued' = [issued EXCEPT ![p] =
                            [called |-> TRUE, dimension |-> embed_dim[p],
                             metric |-> "cosine",
                             conflict |-> collection.exists]]
            /\ IF collection.exists
               THEN /\ pc' = [pc EXCEPT ![p] = "crashed"]
                    /\ UNCHANGED <<collection, creations>>
               ELSE /\ collection' = [exists |-> TRUE, dim |-> embed_dim[p],
                                      metric |-> "cosine", items |-> {}]
                    /\ creations' = creations + 1
                    /\ pc' = [pc EXCEPT ![p] = "ready"]
       ELSE /\ pc' = [pc EXCEPT ![p] = "ready"]
            /\ UNCHANGED <<issued, collection, creations>>
    /\ UNCHANGED <<embed_dim, listed, next_id, last, restarts>>
    /\ UNCHANGED museum
    /\ UNCHANGED <<cropVars, normVars, thrVars>>

\* The program is started again (the server is redeployed, the script is
\* run once more).
restart(p) ==
    /\ pc[p] \in {"ready", "crashed"}
    /\ restarts < MaxRestarts
    /\ restarts' = restarts + 1
    /\ pc' = [pc EXCEPT ![p] = "load"]
    /\ embed_dim' = [embed_dim EXCEPT ![p] = 0]
    /\ listed' = [listed EXCEPT ![p] = FALSE]
    /\ issued' = [issued EXCEPT ![p] = NoCall]
    /\ UNCHANGED <<collection, creations, next_id, last>>
    /\ UNCHANGED museum
    /\ UNCHANGED <<cropVars, normVars, thrVars>>

NextStartup ==
    \/ \E p \in Procs : get_embedding_dim(p)
    \/ \E p \in Procs : list_indexes(p)
    \/ \E p \in Procs : ensure_index(p)
    \/ \E p \in Procs : restart(p)

SpecStartup == InitStartup /\ [][NextStartup]_vars

-----------------------------------------------------------------------------
(***************************************************************************)
(* Spec: the endpoints /index and /search of app.py and index_folder of    *)
(* images_embed.py, once both programs have started                        *)
(***************************************************************************)

\* Both programs have started: the index exists, with the dimension of
\* this embedding model or (start-up does not compare them) another one.
Init ==
    /\ CropIdle
    /\ NormIdle
    /\ ThrIdle
    /\ pc = [p \in Procs |-> "ready"]
    /\ embed_dim = [p \in Procs |-> ModelDim]
    /\ listed = [p \in Procs |-> TRUE]
    /\ issued = [p \in Procs |-> NoCall]
    /\ collection \in
         { [exists |-> TRUE, dim |-> d, metric |-> "cosine", items |-> {}] :
             d \in {ModelDim, OtherDim} }
    /\ creations = 0
    /\ next_id = 1
    /\ last = NoRequest
    /\ restarts = 0
    /\ museum = {}

\* What the caller of /index receives when `raised` is what went wrong
\* and msg is the text of the exception (lines 80-81, 86-87, 92-93,
\* 110, 112-113).
IndexResponse(raised, msg) ==
    IF raised = "none"
    THEN [status |-> 200, detail |-> "ok", msg |-> ""]
    ELSE IF raised = "content_type"
    THEN [status |-> 400, detail |-> "Only JPG/PNG images supported.",
          msg |-> ""]
    ELSE IF raised = "save"
    THEN [status |-> 500, detail |-> "Failed to save file", msg |-> msg]
    ELSE IF raised = "open"
    THEN [status |-> 400, detail |-> "Invalid image", msg |-> msg]
    ELSE [status |-> 500, detail |-> "Error processing/indexing image",
          msg |-> msg]

\* What the caller of /search receives (lines 118-119, 126-127, 145,
\* 147-148).
SearchResponse(raised, msg) ==
    IF raised = "none"
    THEN [status |-> 200, detail |-> "ok", msg |-> ""]
    ELSE IF raised = "content_type"
    THEN [status |-> 400, detail |-> "Only JPG/PNG images supported.",
          msg |-> ""]
    ELSE IF raised \in {"save", "open"}
    THEN [status |-> 400, detail |-> "Invalid query image", msg |-> msg]
    ELSE [status |-> 500, detail |-> "Search error", msg |-> msg]

\* What index_folder prints for one file (lines 55, 57-58).
FolderResponse(raised, msg) ==
    IF raised = "none"
    THEN [status |-> 0, detail |-> "Indexed", msg |-> ""]
    ELSE [status |-> 0, detail |-> "Failed for", msg |-> msg]

\* POST /index (app.py, lines 72-113).  save_upload_file (lines 61-68)
\* writes the upload to images/museum under a fresh name before the image
\* is opened and processed; that name is the item's id and its image_url,
\* and the file stays when a later step fails.
index_image ==
    /\ pc["app"] = "ready"
    /\ \E image \in Images, fail \in Fails, msg \in Msgs :
         LET saved == fail \notin {"content_type", "save"}
             in_try == fail \notin {"content_type", "save", "open"}
             t == TryIndex(IndexFlags, fail, collection)
             raised == IF in_try THEN t.raised ELSE fail
             response == IndexResponse(raised, msg)
         IN  /\ saved => next_id <= MaxItems
             /\ museum' = IF saved THEN museum \cup {next_id} ELSE museum
             /\ collection' =
                  IF in_try /\ t.written
                  THEN Upserted(collection, Item(next_id, image, IndexFlags))
                  ELSE collection
             /\ next_id' = IF saved THEN next_id + 1 ELSE next_id
             /\ last' = [op |-> "index", id |-> next_id,
                         raised |-> raised,
                         upsert |-> in_try /\ t.upsert,
                         response |-> response,
                         k |-> 0, raw |-> << >>, matches |-> << >>,
                         has_matches |-> FALSE]
    /\ UNCHANGED <<pc, embed_dim, listed, issued, creations, restarts>>
    /\ UNCHANGED <<cropVars, normVars, thrVars>>

\* The try block of search_image (process_image, generate_embedding,
\* query, in this order): which call raised.
TrySearch(flags, fail, coll) ==
    IF ProcessImageRaises(flags, fail)
    THEN IF fail = "detector" THEN "detector" ELSE "color"
    ELSE IF GenerateEmbeddingRaises(fail) THEN "embedding"
    ELSE IF DatabaseRaises(fail, coll) THEN "index"
    ELSE "none"

\* POST /search (app.py, lines 116-148).
search_image ==
    /\ pc["app"] = "ready"
    /\ \E image \in Images, top_k \in 1 .. MaxK, fail \in Fails,
          msg \in Msgs :
         LET in_try == fail \notin {"content_type", "save", "open"}
             raised == TrySearch(SearchFlags, fail, collection)
             ok     == in_try /\ raised = "none"
             resp   == IF ok
                       THEN Query(Embedding(image, SearchFlags),
                                  collection.items, top_k)
                       ELSE << >>
             response == SearchResponse(IF in_try THEN raised ELSE fail,
                                        msg)
         IN  last' = [op |-> "search", id |-> next_id,
                      raised |-> IF in_try THEN raised ELSE fail,
                      upsert |-> FALSE,
                      response |-> response,
                      k |-> top_k, raw |-> resp,
                      matches |-> IF ok THEN MapMatches(resp) ELSE << >>,
                      has_matches |-> ok]
    /\ UNCHANGED <<pc, embed_dim, listed, issued, collection, creations,
                   next_id, restarts>>
    /\ UNCHANGED museum
    /\ UNCHANGED <<cropVars, normVars, thrVars>>

\* One iteration of the loop of index_folder (images_embed.py, lines
\* 41-58): a failure is printed and the loop goes on.
index_folder ==
    /\ pc["script"] = "ready"
    /\ \E image \in Images, fail \in Fails \ {"content_type", "save"},
          msg \in Msgs :
         LET in_try == fail # "open"
             t == TryIndex(FolderFlags, fail, collection)
             raised == IF in_try THEN t.raised ELSE fail
             response == FolderResponse(raised, msg)
         IN  /\ (in_try /\ t.written) => next_id <= MaxItems
             /\ collection' =
                  IF in_try /\ t.written
                  THEN Upserted(collection, Item(next_id, image, FolderFlags))
                  ELSE collection
             /\ next_id' = IF in_try /\ t.written THEN next_id + 1
                           ELSE next_id
             /\ last' = [op |-> "folder", id |-> next_id,
                         raised |-> raised,
                         upsert |-> in_try /\ t.upsert,
                         response |-> response,
                         k |-> 0, raw |-> << >>, matches |-> << >>,
                         has_matches |-> FALSE]
    /\ UNCHANGED <<pc, embed_dim, listed, issued, creations, restarts>>
    /\ UNCHANGED museum
    /\ UNCHANGED <<cropVars, normVars, thrVars>>

Next ==
    \/ index_image
    \/ search_image
    \/ index_folder

Spec == Init /\ [][Next]_vars

-----------------------------------------------------------------------------
(***************************************************************************)
(* SpecSingleton: threads calling get_embedding_service                    *)
(* (embedding_service.py, lines 139-144) and get_pipeline (pipeline.py,    *)
(* lines 210-215).  Neither getter takes a lock; a step is one read or one *)
(* write of the module global, or one construction.                        *)
(***************************************************************************)
InitSingleton ==
    /\ CropIdle
    /\ SvcIdle
    /\ NormIdle
    /\ ThrIdle

\* The getter whose body thread t is executing: get_embedding_service also
\* when ImagePipeline.__init__ (line 26) has called it.
Cur(t) ==
    IF thread[t].getter = "pipeline" /\ ~thread[t].in_init
    THEN "pipeline"
    ELSE "embedding_service"

At(t, g, pos) ==
    /\ thread[t].pc = pos
    /\ thread[t].getter # "none"
    /\ Cur(t) = g

\* A thread calls one of the getters.
call(t, g) ==
    /\ thread[t].pc = "idle"
    /\ thread' = [thread EXCEPT ![t].pc = "check", ![t].getter = g]
    /\ UNCHANGED <<global, constructed>>
    /\ UNCHANGED <<cropVars, svcVars, normVars>>

\* `if _embedding_service is None:`
es_check(t) ==
    /\ At(t, "embedding_service", "check")
    /\ thread' = [thread EXCEPT ![t].pc =
                     IF global["embedding_service"].obj = 0
                     THEN "new" ELSE "ret"]
    /\ UNCHANGED <<global, constructed>>
    /\ UNCHANGED <<cropVars, svcVars, normVars>>

\* `EmbeddingService()`
es_construct(t) ==
    /\ At(t, "embedding_service", "new")
    /\ constructed' = [constructed EXCEPT !["embedding_service"] = @ + 1]
    /\ thread' = [thread EXCEPT ![t].pc = "set",
                                ![t].es = constructed["embedding_service"] + 1]
    /\ UNCHANGED global
    /\ UNCHANGED <<cropVars, svcVars, normVars>>

\* `_embedding_service = ...`
es_assign(t) ==
    /\ At(t, "embedding_service", "set")
    /\ global' = [global EXCEPT !["embedding_service"] =
                     [obj |-> thread[t].es, sets |-> @.sets + 1]]
    /\ thread' = [thread EXCEPT ![t].pc = "ret"]
    /\ UNCHANGED constructed
    /\ UNCHANGED <<cropVars, svcVars, normVars>>

\* `return _embedding_service`: to the caller of the getter, or into
\* ImagePipeline.__init__, which then returns the pipeline it has built.
es_return(t) ==
    /\ At(t, "embedding_service", "ret")
    /\ thread' = IF thread[t].in_init
                 THEN [thread EXCEPT ![t].pc = "set", ![t].in_init = FALSE]
                 ELSE [thread EXCEPT ![t].pc = "done",
                          ![t].ret = global["embedding_service"].obj]
    /\ UNCHANGED <<global, constructed>>
    /\ UNCHANGED <<cropVars, svcVars, normVars>>

\* `if _pipeline is None:`
pl_check(t) ==
    /\ At(t, "pipeline", "check")
    /\ thread' = [thread EXCEPT ![t].pc =
                     IF global["pipeline"].obj = 0 THEN "new" ELSE "ret"]
    /\ UNCHANGED <<global, constructed>>
    /\ UNCHANGED <<cropVars, svcVars, normVars>>

\* `ImagePipeline()`, up to its call of get_embedding_service (line 26).
pl_construct(t) ==
    /\ At(t, "pipeline", "new")
    /\ constructed' = [constructed EXCEPT !["pipeline"] = @ + 1]
    /\ thread' = [thread EXCEPT ![t].pc = "check", ![t].in_init = TRUE,
                                ![t].pl = constructed["pipeline"] + 1]
    /\ UNCHANGED global
    /\ UNCHANGED <<cropVars, svcVars, normVars>>

\* `_pipeline = ...`
pl_assign(t) ==
    /\ At(t, "pipeline", "set")
    /\ global' = [global EXCEPT !["pipeline"] =
                     [obj |-> thread[t].pl, sets |-> @.sets + 1]]
    /\ thread' = [thread EXCEPT ![t].pc = "ret"]
    /\ UNCHANGED constructed
    /\ UNCHANGED <<cropVars, svcVars, normVars>>

\* `return _pipeline`
pl_return(t) ==
    /\ At(t, "pipeline", "ret")
    /\ thread' = [thread EXCEPT ![t].pc = "done",
                                ![t].ret = global["pipeline"].obj]
    /\ UNCHANGED <<global, constructed>>
    /\ UNCHANGED <<cropVars, svcVars, normVars>>

NextSingleton ==
    \E t \in Threads :
        \/ \E g \in Getters : call(t, g)
        \/ es_check(t)
        \/ es_construct(t)
        \/ es_assign(t)
        \/ es_return(t)
        \/ pl_check(t)
        \/ pl_construct(t)
        \/ pl_assign(t)
        \/ pl_return(t)

SpecSingleton == InitSingleton /\ [][NextSingleton]_vars

-----------------------------------------------------------------------------
(***************************************************************************)
(* Properties of detect_and_crop, checked under SpecCrop                   *)
(***************************************************************************)

\* C4: when the detector returns zero boxes, detect_and_crop crops the
\* rectangle (left, top, left + side, top + side) with side = min(w, h),
\* left = (w - side) div 2 and top = (h - side) div 2: a square of side
\* min(w, h) inside the image whose margins on opposite sides differ by at
\* most one pixel.
C4_CenterCropOnNoBoxes ==
    (cpc = "done" /\ Len(boxes) = 0) =>
        LET w == img.w
            h == img.h
            side == IF w <= h THEN w ELSE h
            marginL == crop.x1
            marginR == w - crop.x2
            marginT == crop.y1
            marginB == h - crop.y2
        IN  /\ crop.x1 = (w - side) \div 2
            /\ crop.y1 = (h - side) \div 2
            /\ crop.x2 - crop.x1 = side
            /\ crop.y2 - crop.y1 = side
            /\ marginL >= 0 /\ marginR >= 0 /\ marginT >= 0 /\ marginB >= 0
            /\ marginR - marginL \in {0, 1}
            /\ marginB - marginT \in {0, 1}

\* A landscape image with an odd difference of its sides was center-cropped.
C4_Witness ==
    /\ cpc = "done" /\ Len(boxes) = 0
    /\ img.w > img.h + 2
    /\ (img.w - img.h) % 2 = 1
    /\ crop.x1 > 0 /\ crop.y1 = 0

\* C5: for a non-empty detector output the selected box has the maximal
\* area of the sequence, whatever the confidences, and is the first of the
\* boxes that have that area; that box is the one padded and cropped.
C5_LargestAreaFirstSeen ==
    (cpc = "done" /\ Len(boxes) > 0) =>
        /\ best_box \in 1 .. Len(boxes)
        /\ \A j \in 1 .. Len(boxes) :
              (boxes[j].x2 - boxes[j].x1) * (boxes[j].y2 - boxes[j].y1)
                <= (boxes[best_box].x2 - boxes[best_box].x1)
                     * (boxes[best_box].y2 - boxes[best_box].y1)
        /\ \A j \in 1 .. (best_box - 1) :
              (boxes[j].x2 - boxes[j].x1) * (boxes[j].y2 - boxes[j].y1)
                < (boxes[best_box].x2 - boxes[best_box].x1)
                    * (boxes[best_box].y2 - boxes[best_box].y1)
        /\ crop = PadAndClamp(img.w, img.h, boxes[best_box])

\* The box of lower confidence and larger area was selected.
C5_Witness ==
    /\ cpc = "done" /\ Len(boxes) = 2
    /\ boxes[2].conf < boxes[1].conf
    /\ Area(boxes[2]) > Area(boxes[1])
    /\ best_box = 2

\* C6: the rectangle cropped for a selected box lies in [0, w] x [0, h];
\* each side is moved outward by at most the padding, and where no clamping
\* applies on an axis both sides are moved by the same amount, 5% of the
\* (truncated) box length in whole pixels.
C6_PaddedCropInsideImage ==
    (cpc = "done" /\ best_box # 0) =>
        LET b == boxes[best_box]
            ix1 == b.x1 \div SubPixel
            iy1 == b.y1 \div SubPixel
            ix2 == b.x2 \div SubPixel
            iy2 == b.y2 \div SubPixel
            left   == ix1 - crop.x1
            right  == crop.x2 - ix2
            top    == iy1 - crop.y1
            bottom == crop.y2 - iy2
            pad_x  == (ix2 - ix1) \div PadDiv
            pad_y  == (iy2 - iy1) \div PadDiv
        IN  /\ 0 <= crop.x1 /\ crop.x1 <= img.w
            /\ 0 <= crop.x2 /\ crop.x2 <= img.w
            /\ 0 <= crop.y1 /\ crop.y1 <= img.h
            /\ 0 <= crop.y2 /\ crop.y2 <= img.h
            /\ 0 <= left /\ left <= pad_x /\ 0 <= right /\ right <= pad_x
            /\ 0 <= top /\ top <= pad_y /\ 0 <= bottom /\ bottom <= pad_y
            /\ (ix1 - pad_x >= 0 /\ ix2 + pad_x <= img.w) =>
                  (left = pad_x /\ right = pad_x)
            /\ (iy1 - pad_y >= 0 /\ iy2 + pad_y <= img.h) =>
                  (top = pad_y /\ bottom = pad_y)

\* A box was padded by a non-zero amount: clamped at both ends of the x axis
\* and expanded by one pixel on both sides of the y axis.
C6_Witness ==
    /\ cpc = "done" /\ best_box # 0
    /\ boxes[best_box].x1 = 0 /\ boxes[best_box].x2 = SubPixel * img.w
    /\ img.w >= PadDiv
    /\ crop.x1 = 0 /\ crop.x2 = img.w
    /\ boxes[best_box].y1 = SubPixel /\ crop.y1 = 0
    /\ crop.y2 = img.h /\ boxes[best_box].y2 = SubPixel * (img.h - 1)

\* C11: the center-crop fallback is taken only when the detector call
\* returned and gave no box; when the detector call raises, detect_and_crop
\* returns no image, the exception leaves detect_and_crop and then
\* process_image, and no center crop is made.
C11_DetectorFailurePropagates ==
    /\ cpc = "start" => predict = "none"
    /\ predict = "raised" =>
         /\ cpc \in {"raised", "failed"}
         /\ crop = NoCrop
    /\ cpc \in {"raised", "failed"} => predict = "raised"
    /\ cpc \in {"done", "returned"} =>
         /\ predict = "returned"
         /\ crop # NoCrop
         /\ best_box = 0 <=> Len(boxes) = 0
         /\ Len(boxes) = 0 => crop = CenterCrop(img.w, img.h)

\* The detector raised on an image that is not square and process_image
\* ended with the exception, without an image.
C11_Witness ==
    /\ cpc = "failed"
    /\ predict = "raised"
    /\ img.w # img.h
    /\ crop = NoCrop

\* C14: the rectangle cropped for a selected box (truncated to whole
\* pixels, padded and clamped) has x1 < x2 and y1 < y2: the image that
\* detect_and_crop returns has positive width and height.
C14_CropNeverEmpty ==
    (cpc \in {"done", "returned"} /\ best_box # 0) =>
        /\ crop.x1 < crop.x2
        /\ crop.y1 < crop.y2

-----------------------------------------------------------------------------
(***************************************************************************)
(* Properties of the endpoints and of index_folder, checked under Spec     *)
(***************************************************************************)

\* C1: every item of the index was preprocessed with the flags
\* (apply_detection, apply_color_norm) that /search preprocesses its query
\* with, whichever indexing path (the /index endpoint, index_folder) wrote
\* it.
C1_IndexQuerySymmetry ==
    \A it \in collection.items :
        /\ it.values.det = SearchFlags.det
        /\ it.values.norm = SearchFlags.norm

\* C2: an Index request calls upsert only after process_image and
\* generate_embedding have succeeded; when a step of it fails the request
\* ends in an error response and the index holds no item of that request,
\* and when none fails it ends in the ok response with its item in the
\* index.  A Search request in which a step fails ends in an error response
\* and carries no match list.
C2_NoPartialResults ==
    /\ last.op = "index" =>
         /\ last.upsert => last.raised \in {"none", "index"}
         /\ last.raised # "none" =>
              /\ last.response.status \in {400, 500}
              /\ \A it \in collection.items : it.id # last.id
         /\ last.raised = "none" =>
              /\ last.response.status = 200
              /\ last.upsert
              /\ \E it \in collection.items : it.id = last.id
    /\ last.op = "search" =>
         /\ last.raised # "none" =>
              /\ last.response.status \in {400, 500}
              /\ ~last.has_matches
              /\ last.matches = << >>
         /\ last.raised = "none" =>
              /\ last.response.status = 200
              /\ last.has_matches

\* An Index request whose upsert failed, in an index of the right
\* dimension that holds an item of an earlier request.
C2_Witness ==
    /\ last.op = "index"
    /\ last.raised = "index"
    /\ last.upsert
    /\ last.response.status = 500
    /\ collection.dim = ModelDim
    /\ collection.items # {}

\* C3: the error response of a request that failed in one component (the
\* detector, the color normalizer, the embedding model, the database call)
\* differs from every error response the same operation gives when another
\* component fails: the caller can tell the failing component.
C3_ErrorsLabeledByKind ==
    (last.op # "none" /\ last.raised \in Components) =>
        \A c \in Components \ {last.raised} : \A m \in Msgs :
            /\ last.op = "index" => IndexResponse(c, m) # last.response
            /\ last.op = "search" => SearchResponse(c, m) # last.response
            /\ last.op = "folder" => FolderResponse(c, m) # last.response

\* C7: the match list of a successful Search holds the matches the
\* database returned, in the same order, which is by descending score; it
\* has at most top_k entries, as many as the index has items when those
\* are fewer than top_k, and is empty, in an ok response, when the index is
\* empty.
C7_SearchResultShape ==
    (last.op = "search" /\ last.has_matches) =>
        LET n == Cardinality(collection.items)
            len == Len(last.matches)
        IN  /\ last.response.status = 200
            /\ len = Len(last.raw)
            /\ \A i \in 1 .. len :
                 /\ last.matches[i].id = last.raw[i].id
                 /\ last.matches[i].score = last.raw[i].score
                 /\ last.matches[i].metadata = last.raw[i].metadata
                 /\ last.matches[i].image_url
                      = last.raw[i].metadata.image_url
                 /\ \E it \in collection.items : it.id = last.matches[i].id
            /\ \A i, j \in 1 .. len :
                 i < j => /\ last.matches[i].score >= last.matches[j].score
                          /\ last.matches[i].id # last.matches[j].id
            /\ len <= last.k
            /\ n < last.k => len = n
            /\ n >= last.k => len = last.k
            /\ n = 0 => last.matches = << >>

\* A Search with top_k = 2 returned two matches of different scores.
C7_Witness ==
    /\ last.op = "search" /\ last.has_matches
    /\ last.k = 2
    /\ Len(last.matches) = 2
    /\ last.matches[1].score > last.matches[2].score

\* C13: every item in the index has an image_url that names a file present
\* in images/museum, and so has every match a search has returned.
C13_NoDanglingImageUrl ==
    /\ \A item \in collection.items : item.metadata.image_url \in museum
    /\ (last.op = "search" /\ last.has_matches) =>
          \A i \in 1 .. Len(last.matches) :
              last.matches[i].image_url \in museum

-----------------------------------------------------------------------------
(***************************************************************************)
(* Properties of start-up, checked under SpecStartup                       *)
(***************************************************************************)

\* What every state of start-up satisfies: the order and the arguments of
\* the create-index call, and the number of creations.
C8_StateInvariant ==
    /\ \A p \in Procs :
         /\ issued[p].called =>
              /\ embed_dim[p] = ModelDim
              /\ issued[p].dimension = ModelDim
              /\ issued[p].metric = "cosine"
         /\ pc[p] \in {"ready", "crashed"} =>
              (issued[p].called <=> ~listed[p])
         /\ pc[p] = "ready" => collection.exists
    /\ creations <= 1
    /\ creations = 1 =>
         /\ collection.exists
         /\ collection.dim = ModelDim
         /\ collection.metric = "cosine"

C9_DimensionMismatchSurfaced ==
    (collection.exists /\ collection.dim # ModelDim) =>
        \A p \in Procs : pc[p] # "ready"

-----------------------------------------------------------------------------
(***************************************************************************)
(* Properties of the getters, checked under SpecSingleton                  *)
(***************************************************************************)

\* C12: however the calls of several threads to get_embedding_service and
\* to get_pipeline interleave, each class constructs at most one object,
\* each global is assigned at most once, and all the calls of a getter
\* that have returned have returned the same object, the one the global
\* holds.
C12_SingletonsUnderConcurrency ==
    /\ \A g \in Getters :
         /\ constructed[g] <= 1
         /\ global[g].sets <= 1
    /\ \A t \in Threads :
         thread[t].pc = "done" =>
            /\ thread[t].ret = global[thread[t].getter].obj
            /\ \A u \in Threads :
                 (thread[u].pc = "done" /\ thread[u].getter = thread[t].getter)
                    => thread[u].ret = thread[t].ret

-----------------------------------------------------------------------------
(***************************************************************************)
(* Properties of normalize_vector, checked under SpecNorm                  *)
(***************************************************************************)

\* C10: normalize_vector returns the vector divided by its Euclidean norm
\* when the vector is not the zero vector, and the vector unchanged when it
\* is; every embedding generate_embedding returns has unit norm (up to the
\* contribution of components whose squares vanish beside the others) or
\* is the all-zero vector, and nothing is divided by zero.
C10_UnitNormOrZero ==
    npc = "done" =>
        LET zero == \A i \in 1 .. VecLen : features[i].m = 0
        IN  /\ normalized.num = features
            /\ normalized.den2 # 0
            /\ normalized.divided <=> ~zero
            /\ \/ /\ normalized.divided
                  /\ SumSquares(normalized.num, VecLen) = normalized.den2
               \/ zero

=============================================================================
